---- MODULE Spec2Model ----
(***************************************************************************)
(* Model of the PDFConverter component (src/src/components/               *)
(* PDFConverter.tsx): the React state container `state`, the file-load    *)
(* handlers, the quality selector, the asynchronous conversion run        *)
(* (convertPDFToImages) and the asynchronous assembler (downloadImagePDF). *)
(*                                                                         *)
(* An async function is split at its awaits: everything between two       *)
(* awaits runs without interruption on the single JavaScript thread, and  *)
(* any other event handler may run while the function is suspended.       *)
(* convertPDFToImages suspends at four awaits (arrayBuffer, getDocument,  *)
(* getPage, render), each a position of its own.                          *)
(*                                                                         *)
(* Spec is the session with its conversion runs.  downloadImagePDF reads  *)
(* `state` once, when invoked, and writes nothing but its own locals, so  *)
(* it is followed on its own in SpecAssembly, started from the sessions   *)
(* a finished conversion leaves behind.                                   *)
(***************************************************************************)
EXTENDS Integers, Sequences, FiniteSets, Bags, TLC

VARIABLES state, runs, assembly

vars == <<state, runs, assembly>>

(***************************** bounds **************************************)
\* pages of the longest document offered to the component
MaxPages == 2
\* number of convertPDFToImages invocations in flight at once
MaxRuns == 2
\* number of invocations in flight at once where termination is checked
MaxLiveRuns == 1
\* number of files in one drop / file-input event
MaxDrop == 1
\* image and page dimensions the placement is computed for: the small ones
\* up to MaxDim, and a long one
MaxDim == 7
LongDim == 100
\* number of parts a file name's stem is put together from
MaxStem == 2

(************************ rational numbers *********************************)
\* JavaScript numbers that are quotients of small integers are kept exact,
\* as a reduced fraction <<numerator, denominator>> with denominator > 0.
RECURSIVE GCD(_, _)
GCD(a, b) == IF b = 0 THEN a ELSE GCD(b, a % b)

Frac(n, d) == LET g == GCD(n, d) IN IF n = 0 THEN <<0, 1>> ELSE <<n \div g, d \div g>>

RatLeq(a, b) == a[1] * b[2] <= b[1] * a[2]
Zero == Frac(0, 1)
Hundred == Frac(100, 1)

(******************** numbers of the placement *****************************)
\* img.onload computes in JavaScript numbers: IEEE 754 binary64, every
\* operation rounded to nearest, ties to even.  A finite number is kept as
\* [neg, m, e], standing for (-1)^neg * m * 2^e, where the natural number m
\* is held as its limbs in base LimbBase, least significant first, without
\* a leading zero limb, and is odd (or zero: no limb).  A binary64 has an m
\* of at most Precision bits.  The magnitudes met in the placement are far
\* from the subnormal and overflow ranges, which are left out.
LimbBits == 15
LimbBase == 32768
Precision == 53

RECURSIVE BigNorm(_)
BigNorm(a) ==
  IF a = <<>> THEN a
  ELSE IF a[Len(a)] = 0 THEN BigNorm(SubSeq(a, 1, Len(a) - 1)) ELSE a

RECURSIVE BigOfInt(_)
BigOfInt(n) == IF n = 0 THEN <<>> ELSE <<n % LimbBase>> \o BigOfInt(n \div LimbBase)

Limb(a, i) == IF i <= Len(a) THEN a[i] ELSE 0

\* -1, 0 or 1 as a < b, a = b or a > b
BigCmp(a, b) ==
  IF Len(a) # Len(b) THEN (IF Len(a) < Len(b) THEN -1 ELSE 1)
  ELSE LET D == {i \in 1..Len(a) : a[i] # b[i]}
       IN IF D = {} THEN 0
          ELSE LET top == CHOOSE j \in D : \A k \in D : k <= j
               IN IF a[top] < b[top] THEN -1 ELSE 1

RECURSIVE AddFrom(_, _, _, _)
AddFrom(a, b, i, carry) ==
  IF i > Len(a) /\ i > Len(b) THEN (IF carry = 0 THEN <<>> ELSE <<carry>>)
  ELSE LET sum == Limb(a, i) + Limb(b, i) + carry
       IN <<sum % LimbBase>> \o AddFrom(a, b, i + 1, sum \div LimbBase)

BigAdd(a, b) == AddFrom(a, b, 1, 0)

RECURSIVE SubFrom(_, _, _, _)
SubFrom(a, b, i, borrow) ==
  IF i > Len(a) THEN <<>>
  ELSE LET d == a[i] - Limb(b, i) - borrow
       IN <<IF d < 0 THEN d + LimbBase ELSE d>>
            \o SubFrom(a, b, i + 1, IF d < 0 THEN 1 ELSE 0)

\* a - b, for a >= b
BigSub(a, b) == BigNorm(SubFrom(a, b, 1, 0))

RECURSIVE MulFrom(_, _, _, _)
MulFrom(a, k, i, carry) ==
  IF i > Len(a) THEN (IF carry = 0 THEN <<>> ELSE <<carry>>)
  ELSE LET prod == a[i] * k + carry
       IN <<prod % LimbBase>> \o MulFrom(a, k, i + 1, prod \div LimbBase)

\* a * k, for 0 <= k < LimbBase
BigMulSmall(a, k) == IF k = 0 THEN <<>> ELSE MulFrom(a, k, 1, 0)

ShiftLimb(a) == IF a = <<>> THEN a ELSE <<0>> \o a

RECURSIVE BigMul(_, _)
BigMul(a, b) ==
  IF b = <<>> THEN <<>>
  ELSE BigAdd(BigMulSmall(a, b[1]), ShiftLimb(BigMul(a, Tail(b))))

BigDouble(a) == BigMulSmall(a, 2)

BigHalf(a) ==
  BigNorm([i \in 1..Len(a) |->
             (a[i] \div 2) + (Limb(a, i + 1) % 2) * (LimbBase \div 2)])

BigOdd(a) == a # <<>> /\ a[1] % 2 = 1

\* a * 2^n
RECURSIVE BigShl(_, _)
BigShl(a, n) ==
  IF n = 0 THEN a
  ELSE IF n >= LimbBits THEN BigShl(ShiftLimb(a), n - LimbBits)
  ELSE BigShl(BigDouble(a), n - 1)

RECURSIVE SmallBits(_)
SmallBits(n) == IF n = 0 THEN 0 ELSE 1 + SmallBits(n \div 2)

\* the number of bits of a
BitLen(a) == IF a = <<>> THEN 0 ELSE LimbBits * (Len(a) - 1) + SmallBits(a[Len(a)])

NumZero == [neg |-> FALSE, m |-> <<>>, e |-> 0]

\* the number (-1)^neg * m * 2^e with its m made odd
RECURSIVE Canon(_, _, _)
Canon(neg, m, e) ==
  IF m = <<>> THEN NumZero
  ELSE IF m[1] = 0 THEN Canon(neg, Tail(m), e + LimbBits)
  ELSE IF m[1] % 2 = 0 THEN Canon(neg, BigHalf(m), e + 1)
  ELSE [neg |-> neg, m |-> m, e |-> e]

\* an integer such as img.width
Num(n) == Canon(FALSE, BigOfInt(n), 0)

\* m shifted right by s bits: what is left, the last bit shifted out (guard)
\* and whether anything below it was not zero (sticky)
RECURSIVE RoundShift(_, _, _, _)
RoundShift(m, s, guard, sticky) ==
  IF s = 0 THEN [m |-> m, guard |-> guard, sticky |-> sticky]
  ELSE RoundShift(BigHalf(m), s - 1, BigOdd(m), sticky \/ guard)

\* The binary64 nearest to m * 2^e, ties to even; `sticky` says that the
\* exact value lies strictly between m * 2^e and (m + 1) * 2^e.
Round(neg, m, e, sticky) ==
  IF BitLen(m) <= Precision THEN Canon(neg, m, e)
  ELSE LET s == BitLen(m) - Precision
           r == RoundShift(m, s, FALSE, sticky)
           up == r.guard /\ (r.sticky \/ BigOdd(r.m))
       IN Canon(neg, IF up THEN BigAdd(r.m, <<1>>) ELSE r.m, e + s)

\* bits of the quotient R / D, one per step, for D <= R < 2D at the start
\* (so the first bit is 1): the first n bits, q = floor(2^(n-1) * R / D),
\* and whether a remainder is left (sticky)
RECURSIVE QuoBits(_, _, _, _)
QuoBits(R, D, n, Q) ==
  IF BitLen(Q) = n THEN [q |-> Q, sticky |-> R # <<>>]
  ELSE LET ge == BigCmp(R, D) >= 0
           rest == IF ge THEN BigSub(R, D) ELSE R
       IN QuoBits(BigDouble(rest), D, n,
                  BigAdd(BigDouble(Q), IF ge THEN <<1>> ELSE <<>>))

Larger(i, j) == IF i > j THEN i ELSE j
Smaller(i, j) == IF i < j THEN i ELSE j

\* a / b, for b # 0
NumDiv(a, b) ==
  IF a.m = <<>> THEN NumZero
  ELSE LET la == BitLen(a.m)
           lb == BitLen(b.m)
           na == BigShl(a.m, Larger(lb - la, 0))
           ea == a.e - Larger(lb - la, 0)
           nb == BigShl(b.m, Larger(la - lb, 0))
           eb == b.e - Larger(la - lb, 0)
           low == BigCmp(na, nb) < 0
           R == IF low THEN BigDouble(na) ELSE na
           eR == IF low THEN ea - 1 ELSE ea
           quo == QuoBits(R, nb, Precision + 2, <<>>)
       IN Round(a.neg # b.neg, quo.q, eR - eb - (Precision + 1), quo.sticky)

\* the exact product
ExactMul(a, b) == Canon(a.neg # b.neg, BigMul(a.m, b.m), a.e + b.e)

\* a * b
NumMul(a, b) == LET exact == ExactMul(a, b) IN Round(exact.neg, exact.m, exact.e, FALSE)

\* -1, 0 or 1 as a < b, a = b or a > b, for a >= 0 and b >= 0
NumCmp(a, b) ==
  LET e == Smaller(a.e, b.e)
  IN BigCmp(BigShl(a.m, a.e - e), BigShl(b.m, b.e - e))

\* the exact difference a - b, for a >= 0 and b >= 0
ExactSub(a, b) ==
  LET e == Smaller(a.e, b.e)
      ma == BigShl(a.m, a.e - e)
      mb == BigShl(b.m, b.e - e)
  IN IF BigCmp(ma, mb) >= 0 THEN Canon(FALSE, BigSub(ma, mb), e)
     ELSE Canon(TRUE, BigSub(mb, ma), e)

\* a - b, for a >= 0 and b >= 0
NumSub(a, b) == LET exact == ExactSub(a, b) IN Round(exact.neg, exact.m, exact.e, FALSE)

\* a / 2, which is exact
NumHalf(a) == IF a.m = <<>> THEN a ELSE [a EXCEPT !.e = @ - 1]

(***************************** files ***************************************)
\* A File: its name (a sequence of characters), its MIME type, and what
\* pdf.js finds in its bytes: whether getDocument resolves, the number of
\* pages, and the intrinsic size of a page in PDF units.
PdfType == "application/pdf"

DocA == [name |-> <<"a", ".", "p", "d", "f">>, type |-> PdfType,
         valid |-> TRUE, numPages |-> MaxPages, pageW |-> 612, pageH |-> 792]
DocBroken == [name |-> <<"c", ".", "P", "D", "F">>, type |-> PdfType,
              valid |-> FALSE, numPages |-> 0, pageW |-> 0, pageH |-> 0]
DocText == [name |-> <<"d", ".", "t", "x", "t">>, type |-> "text/plain",
            valid |-> FALSE, numPages |-> 0, pageW |-> 0, pageH |-> 0]

Files == {DocA, DocBroken, DocText}

\* `null` of `File | null`
NoFile == [name |-> <<>>, type |-> "", valid |-> FALSE, numPages |-> 0,
           pageW |-> 0, pageH |-> 0]

\* e.dataTransfer.files: the FileList of a drop
FileLists == UNION {[1..n -> Files] : n \in 0..MaxDrop}

\* e.target.files of <input type="file"> (no `multiple`): at most one file
InputLists == UNION {[1..n -> Files] : n \in 0..1}

(************************ quality profiles *********************************)
Qualities == {"high", "medium", "low"}

\* scale in tenths, compression quality in hundredths
qualitySettings ==
  [high   |-> [scale |-> 20, format |-> "image/jpeg", quality |-> 95],
   medium |-> [scale |-> 15, format |-> "image/jpeg", quality |-> 85],
   low    |-> [scale |-> 10, format |-> "image/jpeg", quality |-> 75]]

(************************* session state ***********************************)
InitialState ==
  [file |-> NoFile, pages |-> <<>>, progress |-> Zero, status |-> "idle",
   quality |-> "high"]

\* the updater functions handed to setState
LoadUpdate(prev, f) ==
  [prev EXCEPT !.file = f, !.status = "idle", !.pages = <<>>, !.progress = Zero]

QualityUpdate(prev, value) == [prev EXCEPT !.quality = value]

StartUpdate(prev) ==
  [prev EXCEPT !.status = "processing", !.progress = Zero, !.pages = <<>>]

PageUpdate(prev, progress, images) ==
  [prev EXCEPT !.progress = progress, !.pages = images]

CompletedUpdate(prev, images) ==
  [prev EXCEPT !.status = "completed", !.pages = images]

ErrorUpdateSilent(prev) == prev
ErrorUpdateClearing(prev) == [prev EXCEPT !.status = "error", !.pages = <<>>]
ErrorUpdate(prev) == [prev EXCEPT !.status = "error"]

(************************** file loading ***********************************)
IsPdf(f) == f.type = PdfType

RECURSIVE Find(_, _)
\* Array.prototype.find with the predicate file.type === 'application/pdf';
\* NoFile stands for undefined
Find(files, i) ==
  IF i > Len(files) THEN NoFile
  ELSE IF IsPdf(files[i]) THEN files[i] ELSE Find(files, i + 1)

\* e.target.files?.[0]
First(files) == IF Len(files) = 0 THEN NoFile ELSE files[1]

onDrop(files) ==
  LET pdfFile == Find(files, 1) IN
  /\ state' = IF pdfFile # NoFile THEN LoadUpdate(state, pdfFile) ELSE state
  /\ UNCHANGED <<runs, assembly>>

handleFileSelect(files) ==
  LET file == First(files) IN
  /\ state' = IF file # NoFile /\ IsPdf(file) THEN LoadUpdate(state, file) ELSE state
  /\ UNCHANGED <<runs, assembly>>

(************************ quality selector *********************************)
\* the Select is rendered only when state.file is set
SelectVisible == state.file # NoFile

onValueChange(value) ==
  /\ SelectVisible
  /\ state' = QualityUpdate(state, value)
  /\ UNCHANGED <<runs, assembly>>

(************************** conversion run *********************************)
ConvertVisible == state.file # NoFile /\ state.status = "idle"

\* An invocation of convertPDFToImages that has not returned yet: `closure`
\* holds what the function reads of the `state` of the render whose click
\* handler was invoked (state.file, state.quality); totalPages, settings,
\* images and pageNum are its locals; pc is the await it is suspended at
\* ("buffer": arrayBuffer, "open": getDocument, "page": getPage,
\* "render": render).
NewRun(st) ==
  [pc |-> "buffer", closure |-> [file |-> st.file, quality |-> st.quality],
   totalPages |-> 0, settings |-> qualitySettings["high"], images |-> <<>>,
   pageNum |-> 0]

\* `runs` is the bag of the invocations in flight: they are told apart by
\* nothing but their closures and locals, and one that returns leaves it.
Runs == BagToSet(runs)
Resumed(run, next) == (runs (-) SetToBag({run})) (+) SetToBag({next})
Left(run) == runs (-) SetToBag({run})

convertPDFToImages ==
  /\ ConvertVisible
  /\ BagCardinality(runs) < MaxRuns
  /\ state.file # NoFile
  /\ state' = StartUpdate(state)
  /\ runs' = runs (+) SetToBag({NewRun(state)})
  /\ UNCHANGED assembly

\* const settings = qualitySettings[state.quality], `state` being the closure's
RunSettings(run) == qualitySettings[run.closure.quality]

PageSettingsLive(run) == qualitySettings[state.quality]
\* the `settings` local, read at every page (settings.scale, settings.format,
\* settings.quality)
PageSettings(run) == run.settings

\* the loop condition pageNum <= totalPages
LoopGoesOn(run) == run.pageNum <= run.totalPages

\* The end of a stretch of the loop: either the function suspends at the next
\* page, or the loop condition fails and, in the same synchronous stretch, it
\* publishes the completed state and returns.  `st` is the state after the
\* updates the stretch has queued so far, `next` the function's locals.
Continue(run, st, next) ==
  /\ state' = IF LoopGoesOn(next) THEN st ELSE CompletedUpdate(st, next.images)
  /\ runs' = IF LoopGoesOn(next) THEN Resumed(run, next) ELSE Left(run)
  /\ UNCHANGED assembly

\* the catch block
Caught(run) ==
  /\ state' = ErrorUpdate(state)
  /\ runs' = Left(run)
  /\ UNCHANGED assembly

\* state.file.arrayBuffer() resolves and getDocument is called
BufferRead(run) ==
  /\ run \in Runs
  /\ run.pc = "buffer"
  /\ runs' = Resumed(run, [run EXCEPT !.pc = "open"])
  /\ UNCHANGED <<state, assembly>>

\* state.file.arrayBuffer() rejects: the file can no longer be read,
\* whatever its bytes
BufferRejected(run) ==
  /\ run \in Runs
  /\ run.pc = "buffer"
  /\ Caught(run)

\* getDocument resolves: the locals are initialised and the loop is entered
DocumentOpened(run) ==
  /\ run \in Runs
  /\ run.pc = "open"
  /\ run.closure.file.valid
  /\ Continue(run, state,
              [run EXCEPT !.pc = "page",
                          !.totalPages = run.closure.file.numPages,
                          !.settings = RunSettings(run),
                          !.images = <<>>,
                          !.pageNum = 1])

\* getDocument(...).promise rejects: always on bytes pdf.js cannot parse, and
\* on any document when pdf.js fails otherwise
DocumentRejected(run) ==
  /\ run \in Runs
  /\ run.pc = "open"
  /\ Caught(run)

\* canvas.width = viewport.width: the page size times the scale, truncated
CanvasSize(len, settings) == (len * settings.scale) \div 10

\* canvas.toDataURL(format, quality) of the rendered page: the data URL is
\* determined by the document, the page, and the profile it was drawn with
Rasterize(file, pageNum, settings) ==
  [doc |-> file.name, page |-> pageNum,
   scale |-> settings.scale, format |-> settings.format, quality |-> settings.quality,
   width |-> CanvasSize(file.pageW, settings),
   height |-> CanvasSize(file.pageH, settings)]

\* (pageNum / totalPages) * 100
Progress(pageNum, totalPages) == Frac(pageNum * 100, totalPages)

\* getPage resolves and a 2d context is obtained: render is called
PageLoaded(run) ==
  /\ run \in Runs
  /\ run.pc = "page"
  /\ runs' = Resumed(run, [run EXCEPT !.pc = "render"])
  /\ UNCHANGED <<state, assembly>>

\* render resolves: the raster is appended and published, and the loop
\* goes on to getPage of the next page
PageRendered(run) ==
  /\ run \in Runs
  /\ run.pc = "render"
  /\ LET images == Append(run.images,
                          Rasterize(run.closure.file, run.pageNum, PageSettings(run)))
     IN Continue(run,
                 PageUpdate(state, Progress(run.pageNum, run.totalPages), images),
                 [run EXCEPT !.pc = "page", !.images = images, !.pageNum = @ + 1])

\* getPage resolves and canvas.getContext('2d') returns null: the
\* if (context) body is skipped
PageWithoutContext(run) ==
  /\ run \in Runs
  /\ run.pc = "page"
  /\ Continue(run, state, [run EXCEPT !.pageNum = @ + 1])

\* pdf.getPage(pageNum) rejects
PageRejected(run) ==
  /\ run \in Runs
  /\ run.pc = "page"
  /\ Caught(run)

\* page.render(...).promise rejects
RenderRejected(run) ==
  /\ run \in Runs
  /\ run.pc = "render"
  /\ Caught(run)

(***************************** assembler ***********************************)
\* jsPDF's default page (A4 portrait, in mm):
\* pdf.internal.pageSize.getWidth() / getHeight()
PdfWidth == 210
PdfHeight == 297

\* A jsPDF document is the sequence of its pages, each page the sequence of
\* the images placed on it; drawing goes to the page added last.
NewPdf == << <<>> >>
AddPage(pdf) == Append(pdf, <<>>)
AddImage(pdf, imgData, x, y, width, height) ==
  [pdf EXCEPT ![Len(pdf)] =
     Append(@, [img |-> imgData, x |-> x, y |-> y, width |-> width, height |-> height])]

\* img.onload: fit the image to the page, keep its aspect ratio, centre it
Placement(imgW, imgH, pdfWidth, pdfHeight) ==
  LET imgAspectRatio == NumDiv(Num(imgW), Num(imgH))
      pdfAspectRatio == NumDiv(Num(pdfWidth), Num(pdfHeight))
      wide == NumCmp(imgAspectRatio, pdfAspectRatio) > 0
      width == IF wide THEN Num(pdfWidth)
               ELSE NumMul(Num(pdfHeight), imgAspectRatio)
      height == IF wide THEN NumDiv(Num(pdfWidth), imgAspectRatio)
                ELSE Num(pdfHeight)
  IN [x |-> NumHalf(NumSub(Num(pdfWidth), width)),
      y |-> NumHalf(NumSub(Num(pdfHeight), height)),
      width |-> width, height |-> height]

\* the sizes a canvas can have (lines 90-91), and for each of them the
\* placement img.onload computes on the document's page
RasterSizes ==
  {<<CanvasSize(file.pageW, qualitySettings[q]),
     CanvasSize(file.pageH, qualitySettings[q])>> :
      file \in {f \in Files : f.valid}, q \in Qualities}

PagePlacement ==
  [size \in RasterSizes |-> Placement(size[1], size[2], PdfWidth, PdfHeight)]

AlwaysAddPage(i) == TRUE
\* if (i > 0) pdf.addPage()
NeedsNewPage(i) == i > 0

\* the head of one loop iteration, up to the await on the image
BeginImage(pdf, i) == IF NeedsNewPage(i) THEN AddPage(pdf) ELSE pdf

\* String.prototype.replace(pattern, replacement) with a string pattern:
\* the first occurrence only
IsPrefix(p, s) == Len(p) <= Len(s) /\ SubSeq(s, 1, Len(p)) = p

RECURSIVE Replace(_, _, _)
Replace(s, pattern, replacement) ==
  IF IsPrefix(pattern, s)
    THEN replacement \o SubSeq(s, Len(pattern) + 1, Len(s))
    ELSE IF s = <<>> THEN <<>>
    ELSE <<Head(s)>> \o Replace(Tail(s), pattern, replacement)

DotPdf == <<".", "p", "d", "f">>
ImageOnlySuffix ==
  <<"_", "i", "m", "a", "g", "e", "-", "o", "n", "l", "y", ".", "p", "d", "f">>
FallbackName == <<"c", "o", "n", "v", "e", "r", "t", "e", "d">> \o ImageOnlySuffix

\* state.file?.name.replace('.pdf', '_image-only.pdf') || 'converted_image-only.pdf'
FileName(file) ==
  LET replaced == IF file = NoFile THEN <<>>
                  ELSE Replace(file.name, DotPdf, ImageOnlySuffix)
  IN IF replaced = <<>> THEN FallbackName ELSE replaced

DownloadVisible == state.status = "completed" /\ Len(state.pages) > 0

\* An invocation of downloadImagePDF: `closure` is the `state` it was invoked
\* in, pdf and i are its locals, pc is "onload" while it awaits the image of
\* iteration i, "saved" after pdf.save (saved/fileName: what was handed to it),
\* "stalled" when the awaited promise can no longer resolve, "returned" after
\* the early return, "failed" after the catch block; toast is the last toast
\* the invocation has shown.
NoAssembly ==
  [pc |-> "none", closure |-> InitialState, pdf |-> <<>>, i |-> 0,
   saved |-> <<>>, fileName |-> <<>>, toast |-> "none"]

\* the function body up to its first await, invoked in state st
Invoked(st) ==
  IF Len(st.pages) = 0
    THEN [NoAssembly EXCEPT !.pc = "returned", !.closure = st]
    ELSE [NoAssembly EXCEPT !.pc = "onload", !.closure = st,
                            !.pdf = BeginImage(NewPdf, 0), !.i = 0,
                            !.toast = "info"]

\* One invocation is followed at a time; invocations share no variable.
downloadImagePDF ==
  /\ DownloadVisible
  /\ assembly.pc # "onload"
  /\ Len(state.pages) # 0
  /\ assembly' = Invoked(state)
  /\ UNCHANGED <<state, runs>>

\* the function called as such, whatever the session holds (the download
\* button is not what guards it: line 121 is)
downloadImagePDFCalled ==
  /\ assembly.pc # "onload"
  /\ assembly' = Invoked(state)
  /\ UNCHANGED <<state, runs>>

\* pdf.addImage(imgData, 'JPEG', x, y, width, height) with the rectangle
\* img.onload has computed
PlaceImage(pdf, imgData, pl) == AddImage(pdf, imgData, pl.x, pl.y, pl.width, pl.height)

\* the image the invocation is waiting for
AwaitedImage == assembly.closure.pages[assembly.i + 1]

\* after image i has been drawn: the loop goes on to the next image, or
\* leaves and saves the document
AfterImage(a, pdf) ==
  IF a.i + 1 < Len(a.closure.pages)
    THEN [a EXCEPT !.pdf = BeginImage(pdf, a.i + 1), !.i = a.i + 1]
    ELSE [a EXCEPT !.pc = "saved", !.pdf = pdf, !.i = a.i + 1, !.saved = pdf,
                   !.fileName = FileName(a.closure.file),
                   !.toast = "success"]

\* img.onload fires: the image is placed, the promise resolves, and the loop
\* goes on to the next image or leaves and saves the document
ImageLoaded ==
  /\ assembly.pc = "onload"
  /\ assembly' =
       AfterImage(assembly,
                  PlaceImage(assembly.pdf, AwaitedImage,
                             PagePlacement[<<AwaitedImage.width, AwaitedImage.height>>]))
  /\ UNCHANGED <<state, runs>>

\* after the last image has been drawn and pdf.save has thrown
AfterSaveThrew(a, pdf) ==
  [a EXCEPT !.pc = "failed", !.i = a.i + 1, !.toast = "error", !.pdf = pdf]

\* the last image loads and pdf.save throws: the catch block reports it
SaveThrew ==
  /\ assembly.pc = "onload"
  /\ assembly.i + 1 = Len(assembly.closure.pages)
  /\ assembly' =
       AfterSaveThrew(assembly,
                      PlaceImage(assembly.pdf, AwaitedImage,
                                 PagePlacement[<<AwaitedImage.width, AwaitedImage.height>>]))
  /\ UNCHANGED <<state, runs>>

\* the image cannot be decoded: onload never fires and no onerror handler
\* is installed, so the promise is never settled
ImageFailed ==
  /\ assembly.pc = "onload"
  /\ assembly' = [assembly EXCEPT !.pc = "stalled"]
  /\ UNCHANGED <<state, runs>>

(*************************** specification *********************************)
Init ==
  /\ state = InitialState
  /\ runs = EmptyBag
  /\ assembly = NoAssembly

Next ==
  \/ \E files \in FileLists : onDrop(files)
  \/ \E files \in InputLists : handleFileSelect(files)
  \/ \E value \in Qualities : onValueChange(value)
  \/ convertPDFToImages
  \/ \E run \in Runs : BufferRead(run)
  \/ \E run \in Runs : BufferRejected(run)
  \/ \E run \in Runs : DocumentOpened(run)
  \/ \E run \in Runs : DocumentRejected(run)
  \/ \E run \in Runs : PageLoaded(run)
  \/ \E run \in Runs : PageWithoutContext(run)
  \/ \E run \in Runs : PageRejected(run)
  \/ \E run \in Runs : PageRendered(run)
  \/ \E run \in Runs : RenderRejected(run)

Spec == Init /\ [][Next]_vars

\* a suspended invocation of convertPDFToImages is resumed
RunStep ==
  \E run \in Runs :
     \/ BufferRead(run)
     \/ BufferRejected(run)
     \/ DocumentOpened(run)
     \/ DocumentRejected(run)
     \/ PageLoaded(run)
     \/ PageWithoutContext(run)
     \/ PageRejected(run)
     \/ PageRendered(run)
     \/ RenderRejected(run)

\* convert is pressed with fewer than MaxLiveRuns invocations in flight
convertPDFToImagesLive ==
  /\ BagCardinality(runs) < MaxLiveRuns
  /\ convertPDFToImages

NextLive ==
  \/ \E files \in FileLists : onDrop(files)
  \/ \E files \in InputLists : handleFileSelect(files)
  \/ \E value \in Qualities : onValueChange(value)
  \/ convertPDFToImagesLive
  \/ RunStep

\* Every promise a run awaits (arrayBuffer, getDocument, getPage, render) is
\* eventually settled, so a run is not left suspended forever.
SpecLive == Init /\ [][NextLive]_vars /\ WF_vars(RunStep)

(********************** assembler specification ****************************)
\* images after the loop has gone through pages 1..k of `file`, the pages in
\* `rendered` having obtained a context and the others not
RECURSIVE ImagesAfter(_, _, _, _)
ImagesAfter(file, settings, k, rendered) ==
  IF k = 0 THEN <<>>
  ELSE LET before == ImagesAfter(file, settings, k - 1, rendered)
       IN IF k \in rendered THEN Append(before, Rasterize(file, k, settings))
          ELSE before

Max(S) == CHOOSE m \in S : \A n \in S : n <= m

\* the session an uninterrupted run of convertPDFToImages on `file` at
\* quality `q` ends in, when exactly the pages in `rendered` got a context
CompletedSession(file, q, rendered) ==
  LET images == ImagesAfter(file, qualitySettings[q], file.numPages, rendered)
      loaded == QualityUpdate(LoadUpdate(InitialState, file), q)
      last == PageUpdate(StartUpdate(loaded),
                         Progress(Max(rendered), file.numPages), images)
  IN CompletedUpdate(last, images)

AssemblyInit ==
  /\ \E file \in {f \in Files : IsPdf(f) /\ f.valid} :
     \E q \in Qualities :
     \E rendered \in (SUBSET (1..file.numPages)) \ {{}} :
        /\ state = CompletedSession(file, q, rendered)
        /\ runs = EmptyBag
  /\ assembly = NoAssembly

\* the caller exports, and may load files and move the quality selector
\* meanwhile
NextAssembly ==
  \/ downloadImagePDF
  \/ ImageLoaded
  \/ ImageFailed
  \/ SaveThrew
  \/ \E files \in FileLists : onDrop(files)
  \/ \E files \in InputLists : handleFileSelect(files)
  \/ \E value \in Qualities : onValueChange(value)

SpecAssembly == AssemblyInit /\ [][NextAssembly]_vars

\* the browser finishes decoding the awaited image, one way or the other
ImageSettles == ImageFailed \/ ImageLoaded \/ SaveThrew

SpecAssemblyLive == AssemblyInit /\ [][NextAssembly]_vars /\ WF_vars(ImageSettles)

(************************** naming specification ***************************)
\* File names the browser gives the type application/pdf: a stem put together
\* from letters and extensions, and an extension .pdf in either case; and the
\* empty name.
DotPdfUpper == <<".", "P", "D", "F">>
NameParts == {<<"a">>, DotPdf, DotPdfUpper}

RECURSIVE Stems(_)
Stems(n) ==
  IF n = 0 THEN {<<>>}
  ELSE Stems(n - 1) \cup {stem \o part : stem \in Stems(n - 1), part \in NameParts}

Names ==
  {<<>>} \cup {stem \o ext : stem \in Stems(MaxStem), ext \in {DotPdf, DotPdfUpper}}

\* the sessions a conversion of a document so named has completed
NamingInit ==
  /\ \E name \in Names : \E q \in Qualities :
        state = CompletedSession([DocA EXCEPT !.name = name], q, 1..DocA.numPages)
  /\ runs = EmptyBag
  /\ assembly = NoAssembly

SpecNaming == NamingInit /\ [][NextAssembly]_vars

(************************ direct-call specification ************************)
\* downloadImagePDF as a function any caller may invoke: in the freshly
\* mounted session (no pages) or in a session a conversion has completed
CallInit == Init \/ AssemblyInit

NextCall ==
  \/ downloadImagePDFCalled
  \/ ImageLoaded
  \/ ImageFailed
  \/ SaveThrew
  \/ \E files \in FileLists : onDrop(files)
  \/ \E files \in InputLists : handleFileSelect(files)
  \/ \E value \in Qualities : onValueChange(value)

SpecCall == CallInit /\ [][NextCall]_vars

(********************** placement specification ****************************)
\* The body of img.onload as a function of what it reads: img.width,
\* img.height and the page size of the document.  Here `assembly` holds the
\* callback's inputs and, once it has run, the rectangle it hands to addImage.
Dims == (1..MaxDim) \cup {LongDim}

\* before img.onload has run
NotPlaced == [x |-> NumZero, y |-> NumZero, width |-> NumZero, height |-> NumZero]

PlacementInit ==
  /\ state = InitialState
  /\ runs = EmptyBag
  /\ \E w \in Dims, h \in Dims, pw \in Dims, ph \in Dims :
        assembly = [pc |-> "placing", img |-> [width |-> w, height |-> h],
                    pageSize |-> [width |-> pw, height |-> ph],
                    placed |-> NotPlaced]

Place ==
  /\ assembly.pc = "placing"
  /\ assembly' = [assembly EXCEPT
                    !.pc = "placed",
                    !.placed = Placement(assembly.img.width, assembly.img.height,
                                         assembly.pageSize.width,
                                         assembly.pageSize.height)]
  /\ UNCHANGED <<state, runs>>

NextPlacement == Place

SpecPlacement == PlacementInit /\ [][NextPlacement]_vars

(******************************* claims ************************************)
\* C1: whenever status is completed, pages holds as many rasters as the
\* session's source has pages and progress is 100; while a run is going
\* through its pages, pages never holds more rasters than the run's source
\* has pages.
C1_PagesMatchPageCount ==
  /\ state.status = "completed" =>
       /\ Len(state.pages) = state.file.numPages
       /\ state.progress = Hundred
  /\ \A run \in Runs :
        run.pc \in {"page", "render"} => Len(state.pages) <= run.totalPages

\* C2: at most one conversion run is in flight at any time.
C2_SingleRunInFlight == BagCardinality(runs) <= 1

\* C3: loading a PDF file (by drop or by the file input) while status is
\* processing leaves file, pages, progress and status as they were; loading
\* one in any other status sets pages = [], progress = 0, status = idle.
C3_LoadStep(loaded) ==
  IF state.status = "processing"
    THEN /\ state'.file = state.file
         /\ state'.pages = state.pages
         /\ state'.progress = state.progress
         /\ state'.status = state.status
    ELSE /\ state'.file = loaded
         /\ state'.pages = <<>>
         /\ state'.progress = Zero
         /\ state'.status = "idle"

C3_LoadRejectedWhileProcessing ==
  [][/\ \A files \in FileLists :
          onDrop(files) /\ Find(files, 1) # NoFile => C3_LoadStep(Find(files, 1))
     /\ \A files \in InputLists :
          handleFileSelect(files) /\ IsPdf(First(files)) => C3_LoadStep(First(files))
    ]_vars

\* C4: the status only ever changes from idle to processing, from processing
\* to completed or error, or back to idle from completed or error.
C4_StatusTransitions ==
  [][state'.status # state.status =>
       <<state.status, state'.status>> \in
          {<<"idle", "processing">>, <<"processing", "completed">>,
           <<"processing", "error">>, <<"completed", "idle">>, <<"error", "idle">>}
    ]_vars

\* C5: when a page of a run fails to rasterize, because getPage/render
\* rejects or because no 2d context is obtained, the run ends there with
\* status error.
C5_PageFailureAbortsRun ==
  [][\A run \in Runs :
        PageRejected(run) \/ RenderRejected(run) \/ PageWithoutContext(run) =>
          state'.status = "error" /\ runs' = Left(run)
    ]_vars

\* C6: the step in which a run ends in error (its document or one of its
\* pages is rejected) sets status to error, leaves pages and progress as they
\* were (the rasters the session held are still there), and starts no run.
C6_ErrorKeepsPages ==
  [][runs' # runs => \A run \in Runs :
        (\/ BufferRejected(run) \/ DocumentRejected(run)
         \/ PageRejected(run) \/ RenderRejected(run)) =>
          /\ state'.status = "error"
          /\ state'.pages = state.pages
          /\ state'.progress = state.progress
          /\ state.pages = run.images => state'.pages = run.images
          /\ BagCardinality(runs') = BagCardinality(runs) - 1
          /\ \A other \in BagToSet(runs') : CopiesIn(other, runs') <= CopiesIn(other, runs)
    ]_vars

\* a run failed after its first page and before its last, no run is left,
\* and the session still holds the rasters published before the failure
C6_Witness ==
  /\ state.status = "error"
  /\ runs = EmptyBag
  /\ Len(state.pages) >= 1
  /\ RatLeq(state.progress, Hundred) /\ state.progress # Hundred
  /\ Len(state.pages) < state.file.numPages

\* the step that takes a run out of its loop without a failure
Completes(run) ==
  /\ PageRendered(run) \/ PageWithoutContext(run)
  /\ run.pageNum = run.totalPages

\* C7: while a run is in flight no step lowers progress; the k-th value the
\* run publishes is 100*k/N, and a run that completes has published N values.
C7_ProgressMonotone ==
  [][\A run \in Runs :
          /\ RatLeq(state.progress, state'.progress)
          /\ PageRendered(run) =>
               state'.progress = Frac(100 * (Len(run.images) + 1), run.totalPages)
          /\ Completes(run) => Len(state'.pages) = run.totalPages
    ]_vars

\* C8: the quality selector keeps its value in every step taken while a run
\* is in flight.
C8_QualityFixedDuringRun ==
  [][runs # EmptyBag => state'.quality = state.quality]_vars

\* C9: every page a run rasterizes is drawn with the profile of the quality
\* tier that was selected when convert was invoked, whatever the selector
\* shows by then.
C9_OneProfilePerRun ==
  [][runs' # runs => \A run \in Runs :
        PageRendered(run) =>
          LET img == state'.pages[Len(state'.pages)]
              profile == qualitySettings[run.closure.quality]
          IN /\ img.page = run.pageNum
             /\ img.scale = profile.scale
             /\ img.format = profile.format
             /\ img.quality = profile.quality
             /\ \A i \in 1..Len(run.images) :
                   /\ state'.pages[i].scale = profile.scale
                   /\ state'.pages[i].quality = profile.quality
    ]_vars

\* a run has drawn and published its first page, is waiting for its next
\* one, and the selector has been moved to another tier since convert was
\* invoked
C9_Witness ==
  \E run \in Runs :
     /\ run.pc \in {"page", "render"}
     /\ Len(run.images) >= 1
     /\ state.pages = run.images
     /\ state.quality # run.closure.quality

\* C10: the document handed to pdf.save has as many pages as the assembler
\* was given rasters, each page holds exactly one image, and page i holds
\* raster i.
C10_OutputPagesMatchInput ==
  assembly.pc = "saved" =>
    /\ Len(assembly.saved) = Len(assembly.closure.pages)
    /\ \A i \in 1..Len(assembly.saved) :
          /\ Len(assembly.saved[i]) = 1
          /\ assembly.saved[i][1].img = assembly.closure.pages[i]

\* a document assembled from two or more distinguishable rasters was saved
C10_Witness ==
  /\ assembly.pc = "saved"
  /\ Len(assembly.closure.pages) >= 2
  /\ assembly.closure.pages[1] # assembly.closure.pages[2]

\* twice a number, exactly
NumTwice(a) == IF a.m = <<>> THEN a ELSE [a EXCEPT !.e = @ + 1]

\* C11: the placed rectangle fits the page (width <= W, height <= H), touches
\* it in at least one dimension, keeps the image's aspect ratio
\* (width * h = height * w), and is centred inside the page
\* (x = (W - width)/2 >= 0, y = (H - height)/2 >= 0), all as exact relations
\* between the numbers handed to addImage.
C11_PlacementFitsAndCentres ==
  assembly.pc = "placed" =>
    LET w == Num(assembly.img.width)
        h == Num(assembly.img.height)
        W == Num(assembly.pageSize.width)
        H == Num(assembly.pageSize.height)
        p == assembly.placed
    IN /\ NumCmp(p.width, W) <= 0
       /\ NumCmp(p.height, H) <= 0
       /\ p.width = W \/ p.height = H
       /\ ExactMul(p.width, h) = ExactMul(p.height, w)
       /\ NumTwice(p.x) = ExactSub(W, p.width)
       /\ NumTwice(p.y) = ExactSub(H, p.height)
       /\ ~p.x.neg
       /\ ~p.y.neg

\* C12: a call of the assembler with no pages reports an error and produces
\* no document.
C12_EmptyInputReported ==
  assembly.pc = "returned" =>
    /\ assembly.toast = "error"
    /\ assembly.saved = <<>>

\* C13: a file that is not a valid paginated document never enters a run:
\* no run is ever in flight on such a file and the session is never
\* processing with such a file as its source.
C13_InvalidInputNeverRuns ==
  /\ \A run \in Runs : run.closure.file.valid
  /\ state.status = "processing" => state.file.valid

\* C14: pages is in source page order without gaps: pages[i] is the raster of
\* page i of one and the same document.
C14_PagesInSourceOrder ==
  \A i \in 1..Len(state.pages) :
     /\ state.pages[i].page = i
     /\ state.pages[i].doc = state.pages[1].doc

\* how far a run has come: its awaits in the order it reaches them
Rank(run) ==
  2 * run.pageNum + (IF run.pc \in {"open", "render"} THEN 1 ELSE 0)

\* C15: a run that returns has set status to completed or error in the same
\* step; a run that is resumed without returning has moved on (to its next
\* await, never to a page past totalPages); and,
\* the awaited promises being settled eventually, runs keep returning for as
\* long as some run is in flight.
C15_RunsTerminate ==
  /\ [][runs' # runs => \A run \in Runs :
          /\ runs' = Left(run) => state'.status \in {"completed", "error"}
          /\ \A next \in BagToSet(runs') :
                runs' = Resumed(run, next) /\ next # run =>
                  /\ Rank(next) > Rank(run)
                  /\ next.pageNum <= next.totalPages
       ]_vars
  /\ <>[](runs # EmptyBag) =>
        []<><<BagCardinality(runs') < BagCardinality(runs)>>_vars

\* a run went through all its pages and returned, leaving the session
\* completed with every page
C15_Witness ==
  /\ runs = EmptyBag
  /\ state.status = "completed"
  /\ Len(state.pages) = MaxPages
  /\ state.progress = Hundred

\* C16: the name handed to pdf.save is the source name with its trailing
\* ".pdf" replaced by "_image-only.pdf"; it ends in "_image-only.pdf" and
\* differs from the source name, whatever the source name; with no source
\* name it is "converted_image-only.pdf".
EndsWith(s, suffix) ==
  Len(suffix) <= Len(s) /\ SubSeq(s, Len(s) - Len(suffix) + 1, Len(s)) = suffix

C16_OutputName ==
  assembly.pc = "saved" =>
    LET name == assembly.closure.file.name
        out == assembly.fileName
    IN IF name = <<>>
         THEN out = FallbackName
         ELSE /\ EndsWith(name, DotPdf) =>
                   out = SubSeq(name, 1, Len(name) - Len(DotPdf)) \o ImageOnlySuffix
              /\ EndsWith(out, ImageOnlySuffix)
              /\ out # name

\* C17: whenever the download is offered (status completed, pages not
\* empty), every raster in pages is a raster of the file the session holds.
C17_PagesBelongToFile ==
  DownloadVisible =>
    \A i \in 1..Len(state.pages) : state.pages[i].doc = state.file.name

\* C18: from the first published page of a run until the run ends, progress
\* and pages agree: progress = 100 * pages.length / N, both while the run
\* waits for its next page and when it has completed the session's source.
C18_SnapshotConsistent ==
  /\ \A run \in Runs :
        run.pc \in {"page", "render"} /\ Len(state.pages) >= 1 =>
          state.progress = Frac(100 * Len(state.pages), run.totalPages)
  /\ state.status = "completed" /\ Len(state.pages) >= 1 /\ state.file.valid =>
        state.progress = Frac(100 * Len(state.pages), state.file.numPages)

\* C19: an invocation of the assembler that is waiting for an image
\* eventually ends, by saving the document or by reporting a failure.
C19_AssemblerFinishes ==
  [](assembly.pc = "onload" => <>(assembly.pc \in {"saved", "failed"}))

====
